---- MODULE Spec2Model ----
(***************************************************************************)
(* Model of rstf (src/src/main.rs): the chunked AEAD sealer                *)
(* (EncryptedWriter), the opener (DecryptedReader) and the pack / unpack   *)
(* / list orchestrators around them.                                       *)
(*                                                                         *)
(* The AEAD (ChaCha20-Poly1305 in the StreamBE32 construction) is modelled *)
(* as an ideal primitive: a ciphertext opens under (key, base nonce,       *)
(* counter, last-flag) exactly when it is, byte for byte, the ciphertext   *)
(* sealed under the same four values.                                      *)
(***************************************************************************)
EXTENDS Integers, Sequences, FiniteSets, TLC

\* ------------------------------------------------------------------------
\* Program constants.  CHUNK_SIZE (64 * 1024 in the source), TAG_SIZE (16 in
\* the source) and COUNTER_MAX (2^32 - 1 in the library) are scaled down so
\* that whole streams of several frames can be enumerated; every statement
\* below is relative to these names, never to their values.
\* ------------------------------------------------------------------------
CHUNK_SIZE == 3

TAG_SIZE == 1

COUNTER_MAX == 16

encrypted_chunk_size == CHUNK_SIZE + TAG_SIZE

\* ------------------------------------------------------------------------
\* Bounds of the model.
\* ------------------------------------------------------------------------
\* number of plaintext bytes handed to one sealer, a first bulk write apart
MaxTotal == 6

\* longest buffer of one write call
MaxWrite == 3

\* number of explicit flush calls on one sealer
MaxFlush == 1

\* longest caller buffer handed to one read call
MaxBuf == 3

\* number of Err results (Interrupted or other) of the inner source in one run
MaxIntr == 1

\* how far from either end of a container a cut is tried
MaxCut == 8

Min(a, b) == IF a < b THEN a ELSE b

Take(s, n) == SubSeq(s, 1, n)

Skip(s, n) == SubSeq(s, n + 1, Len(s))

\* ------------------------------------------------------------------------
\* The streaming AEAD.
\* ------------------------------------------------------------------------
\* The marker carried by the tag positions of a frame.
TagByte == -1

\* encrypt_next / encrypt_last of the stream construction: ciphertext \o tag.
\* Every wire byte records what it was sealed under, its place in the frame
\* and (x) whether it was altered after sealing.
Seal(key, nonce, counter, last, pt) ==
  [i \in 1..(Len(pt) + TAG_SIZE) |->
     [k |-> key, n |-> nonce, c |-> counter, l |-> last, len |-> Len(pt),
      i |-> i, p |-> IF i <= Len(pt) THEN pt[i] ELSE TagByte, x |-> FALSE]]

\* The plaintext a chunk of wire bytes would carry.
Body(chunk) == [i \in 1..(Len(chunk) - TAG_SIZE) |-> chunk[i].p]

\* decrypt_next / decrypt_last: the tag verifies exactly when the chunk is the
\* ciphertext sealed under the same key, nonce, counter and flag.
Opens(key, nonce, counter, last, chunk) ==
  /\ Len(chunk) >= TAG_SIZE
  /\ chunk = Seal(key, nonce, counter, last, Body(chunk))

\* ------------------------------------------------------------------------
\* The inner sink of the sealer: a BufWriter of capacity CHUNK_SIZE over the
\* output file (line 255).  A sink is a record
\*   buf  : the bytes buffered and not yet in the file
\*   file : the bytes of the file
\*   ok   : writes to the file succeed (FALSE once the device fails)
\* ------------------------------------------------------------------------
new_sink == [buf |-> <<>>, file |-> <<>>, ok |-> TRUE]

\* every byte the sink has accepted, in order
Accepted(sink) == sink.file \o sink.buf

\* BufWriter::flush_buf
flush_buf(sink) ==
  IF sink.buf = <<>> THEN [sink |-> sink, ok |-> TRUE]
  ELSE IF sink.ok
  THEN [sink |-> [sink EXCEPT !.file = @ \o sink.buf, !.buf = <<>>], ok |-> TRUE]
  ELSE [sink |-> sink, ok |-> FALSE]

\* BufWriter::write_all
write_all(sink, data) ==
  LET spare == CHUNK_SIZE - Len(sink.buf)
  IN IF Len(data) < spare
     THEN [sink |-> [sink EXCEPT !.buf = @ \o data], ok |-> TRUE]
     ELSE LET f == IF Len(data) > spare THEN flush_buf(sink)
                   ELSE [sink |-> sink, ok |-> TRUE]
          IN IF ~f.ok THEN f
             ELSE IF Len(data) >= CHUNK_SIZE
             THEN IF f.sink.ok
                  THEN [sink |-> [f.sink EXCEPT !.file = @ \o data], ok |-> TRUE]
                  ELSE [sink |-> f.sink, ok |-> FALSE]
             ELSE [sink |-> [f.sink EXCEPT !.buf = @ \o data], ok |-> TRUE]

\* BufWriter::flush: flush_buf, then File::flush, which does nothing
sink_flush(sink) == flush_buf(sink)

\* Drop for BufWriter: the result of flush_buf is discarded
sink_drop(sink) == flush_buf(sink).sink

\* ------------------------------------------------------------------------
\* EncryptedWriter.  A sealer is a record
\*   inner    : the inner sink
\*   key, nonce, position : the encryptor (AEAD key, base nonce, counter)
\*   buffer   : the plaintext buffer
\*   log      : (history) one entry per sealing, see LogEntry
\* ------------------------------------------------------------------------
new_writer(inner, key, nonce) ==
  [inner |-> inner, key |-> key, nonce |-> nonce, position |-> 0,
   buffer |-> <<>>, log |-> <<>>]

\* History entry of one sealing: the counter and flag it was sealed under,
\* the final_chunk argument of the call, the plaintext length and how many of
\* the frame's bytes the inner sink accepted.
LogEntry(counter, last, final_chunk, ptlen, wrote) ==
  [c |-> counter, l |-> last, fin |-> final_chunk, len |-> ptlen, wrote |-> wrote]

\* flush_chunk with an encryptor whose counter has no limit
flush_chunk_unlimited(self, final_chunk) ==
  IF self.buffer = <<>> /\ ~final_chunk
  THEN [self |-> self, ok |-> TRUE]
  ELSE
    LET ciphertext == Seal(self.key, self.nonce, self.position, FALSE, self.buffer)
        w == write_all(self.inner, ciphertext)
    IN [self |-> [self EXCEPT !.position = @ + 1, !.inner = w.sink,
                              !.buffer = <<>>,
                              !.log = Append(@, LogEntry(self.position, FALSE, final_chunk,
                                                         Len(self.buffer), Len(ciphertext)))],
        ok |-> w.ok]

\* flush_chunk(final_chunk).  encrypt_next fails, without sealing, once the
\* counter has reached COUNTER_MAX; it seals with the last-frame flag clear.
flush_chunk(self, final_chunk) ==
  IF self.buffer = <<>> /\ ~final_chunk
  THEN [self |-> self, ok |-> TRUE]
  ELSE IF self.position = COUNTER_MAX
  THEN [self |-> self, ok |-> FALSE]
  ELSE
    LET ciphertext == Seal(self.key, self.nonce, self.position, FALSE, self.buffer)
        w == write_all(self.inner, ciphertext)
        sealed == [self EXCEPT !.position = @ + 1, !.inner = w.sink]
    IN IF ~w.ok
       THEN [self |-> [sealed EXCEPT
                         !.log = Append(@, LogEntry(self.position, FALSE, final_chunk,
                                                    Len(self.buffer), 0))],
             ok |-> FALSE]
       ELSE [self |-> [sealed EXCEPT
                         !.buffer = <<>>,
                         !.log = Append(@, LogEntry(self.position, FALSE, final_chunk,
                                                    Len(self.buffer), Len(ciphertext)))],
             ok |-> TRUE]

\* The loop of Write::write.
RECURSIVE write_loop(_, _, _)
write_loop(self, buf, total_written) ==
  IF total_written >= Len(buf)
  THEN [self |-> self, ok |-> TRUE, n |-> total_written]
  ELSE
    LET space_left == CHUNK_SIZE - Len(self.buffer)
        to_copy == Min(space_left, Len(buf) - total_written)
        filled == [self EXCEPT !.buffer =
                     @ \o SubSeq(buf, total_written + 1, total_written + to_copy)]
    IN IF Len(filled.buffer) = CHUNK_SIZE
       THEN LET r == flush_chunk(filled, FALSE)
            IN IF r.ok
               THEN write_loop(r.self, buf, total_written + to_copy)
               ELSE [self |-> r.self, ok |-> FALSE, n |-> total_written + to_copy]
       ELSE write_loop(filled, buf, total_written + to_copy)

\* a write whose loop seals a full buffer only when more input is to come
RECURSIVE write_loop_lazy(_, _, _)
write_loop_lazy(self, buf, total_written) ==
  IF total_written >= Len(buf)
  THEN [self |-> self, ok |-> TRUE, n |-> total_written]
  ELSE
    LET space_left == CHUNK_SIZE - Len(self.buffer)
        to_copy == Min(space_left, Len(buf) - total_written)
        filled == [self EXCEPT !.buffer =
                     @ \o SubSeq(buf, total_written + 1, total_written + to_copy)]
    IN IF Len(filled.buffer) = CHUNK_SIZE /\ total_written + to_copy < Len(buf)
       THEN LET r == flush_chunk(filled, FALSE)
            IN IF r.ok
               THEN write_loop_lazy(r.self, buf, total_written + to_copy)
               ELSE [self |-> r.self, ok |-> FALSE, n |-> total_written + to_copy]
       ELSE write_loop_lazy(filled, buf, total_written + to_copy)

write_lazy(self, buf) == write_loop_lazy(self, buf, 0)

\* Write::write
write(self, buf) == write_loop(self, buf, 0)

\* Write::flush
flush(self) ==
  LET r == flush_chunk(self, TRUE)
  IN IF ~r.ok THEN r
     ELSE LET f == sink_flush(r.self.inner)
          IN [self |-> [r.self EXCEPT !.inner = f.sink], ok |-> f.ok]

\* a drop that releases the inner BufWriter before it seals the closing frame
drop_sink_first(self) ==
  LET r == flush_chunk([self EXCEPT !.inner = sink_drop(@)], TRUE)
  IN r.self

\* Drop for EncryptedWriter: the result of flush_chunk(true) is discarded;
\* the fields are dropped after it, the inner BufWriter among them.
drop(self) ==
  LET r == flush_chunk(self, TRUE)
  IN [r.self EXCEPT !.inner = sink_drop(@)]

\* ------------------------------------------------------------------------
\* DecryptedReader.  An opener is a record
\*   inner    : the bytes the inner source has not yet returned
\*   key, nonce, position : the decryptor (AEAD key, base nonce, counter)
\*   buffer, offset, eof  : as in the source
\* ------------------------------------------------------------------------
new_reader(source, key, nonce) ==
  [inner |-> source, key |-> key, nonce |-> nonce, position |-> 0,
   buffer |-> <<>>, offset |-> 0, eof |-> FALSE]

\* serve with the copy taken from the start of the plaintext buffer
serve_from_start(self, n) ==
  LET available == Len(self.buffer) - self.offset
      to_copy == Min(available, n)
  IN [self |-> [self EXCEPT !.offset = @ + to_copy],
      kind |-> "Ok", n |-> to_copy,
      bytes |-> SubSeq(self.buffer, 1, to_copy),
      opened |-> <<>>]

\* Lines 215-220: copy from the plaintext buffer into a caller buffer of n bytes.
serve(self, n) ==
  LET available == Len(self.buffer) - self.offset
      to_copy == Min(available, n)
  IN [self |-> [self EXCEPT !.offset = @ + to_copy],
      kind |-> "Ok", n |-> to_copy,
      bytes |-> SubSeq(self.buffer, self.offset + 1, self.offset + to_copy),
      opened |-> <<>>]

\* after_fill with every opened frame taken for the last one (eof set whatever
\* read_bytes is).
after_fill_eof_always(self, chunk, n) ==
  IF Len(chunk) = 0
  THEN [self |-> [self EXCEPT !.eof = TRUE], kind |-> "Ok", n |-> 0,
        bytes |-> <<>>, opened |-> <<>>]
  ELSE IF ~Opens(self.key, self.nonce, self.position, FALSE, chunk)
  THEN [self |-> self, kind |-> "InvalidData", n |-> 0,
        bytes |-> <<>>, opened |-> <<>>]
  ELSE LET got == [self EXCEPT !.buffer = Body(chunk), !.offset = 0,
                               !.position = @ + 1, !.eof = TRUE]
           r == serve(got, n)
       IN [r EXCEPT !.opened = <<[c |-> self.position, len |-> Len(Body(chunk))]>>]

\* after_fill with the plaintext handed on whether or not the tag verifies
after_fill_unverified(self, chunk, n) ==
  LET read_bytes == Len(chunk)
  IN IF read_bytes = 0
     THEN [self |-> [self EXCEPT !.eof = TRUE], kind |-> "Ok", n |-> 0,
           bytes |-> <<>>, opened |-> <<>>]
     ELSE LET got == [self EXCEPT !.buffer = Body(chunk),
                                  !.offset = 0,
                                  !.position = @ + 1,
                                  !.eof = IF read_bytes < encrypted_chunk_size
                                          THEN TRUE ELSE @]
              r == serve(got, n)
          IN [r EXCEPT !.opened = <<[c |-> self.position, len |-> Len(Body(chunk))]>>]

\* Lines 193-213 and the tail: what read does once its fill loop has ended
\* with the bytes chunk in encrypted_buf[..read_bytes].
after_fill(self, chunk, n) ==
  LET read_bytes == Len(chunk)
  IN IF read_bytes = 0
     THEN [self |-> [self EXCEPT !.eof = TRUE], kind |-> "Ok", n |-> 0,
           bytes |-> <<>>, opened |-> <<>>]
     ELSE IF ~Opens(self.key, self.nonce, self.position, FALSE, chunk)
     THEN [self |-> self, kind |-> "InvalidData", n |-> 0,
           bytes |-> <<>>, opened |-> <<>>]
     ELSE LET got == [self EXCEPT !.buffer = Body(chunk),
                                  !.offset = 0,
                                  !.position = @ + 1,
                                  !.eof = IF read_bytes < encrypted_chunk_size
                                          THEN TRUE ELSE @]
              r == serve(got, n)
          IN [r EXCEPT !.opened = <<[c |-> self.position, len |-> Len(Body(chunk))]>>]

\* ------------------------------------------------------------------------
\* What may happen to a sealed stream between the sealer and the opener.
\* ------------------------------------------------------------------------
\* The stream cut into the frames the sealer emitted.
RECURSIVE FramesOf(_, _)
FramesOf(stream, log) ==
  IF log = <<>> THEN <<>>
  ELSE <<Take(stream, log[1].wrote)>> \o FramesOf(Skip(stream, log[1].wrote), Tail(log))

RECURSIVE Concat(_)
Concat(fs) == IF fs = <<>> THEN <<>> ELSE fs[1] \o Concat(Tail(fs))

Truncations(stream) == {Take(stream, k) : k \in 0..(Len(stream) - 1)}

Modifications(stream) ==
  {[stream EXCEPT ![i].x = TRUE] : i \in 1..Len(stream)}

Swaps(fs) ==
  {Concat([fs EXCEPT ![i] = fs[j], ![j] = fs[i]]) :
     i \in 1..Len(fs), j \in 1..Len(fs)} \ {Concat(fs)}

\* frame i repeated after frame j
Duplications(fs) ==
  {Concat(Take(fs, j) \o <<fs[i]>> \o Skip(fs, j)) : i \in 1..Len(fs), j \in 0..Len(fs)}

Drops(fs) ==
  {Concat(Take(fs, i - 1) \o Skip(fs, i)) : i \in 1..Len(fs)}

OtherKey == "other key"

\* a frame of another container (another key), sealed for the next counter
Appends(fs, key, nonce) ==
  {Concat(fs) \o Seal(OtherKey, nonce, Len(fs), FALSE, pt) : pt \in {<<>>, <<0>>}}

Tampered(kind, stream, log, key, nonce) ==
  LET fs == FramesOf(stream, log)
  IN CASE kind = "none" -> {stream}
       [] kind = "truncate" -> Truncations(stream)
       [] kind = "modify" -> Modifications(stream)
       [] kind = "swap" -> Swaps(fs)
       [] kind = "duplicate" -> Duplications(fs)
       [] kind = "drop" -> Drops(fs)
       [] kind = "append" -> Appends(fs, key, nonce)

TamperKinds == {"none", "truncate", "modify", "swap", "duplicate", "drop", "append"}

\* ------------------------------------------------------------------------
\* The container and what pack puts in it.
\* ------------------------------------------------------------------------
SALT_LEN == 16

NONCE_LEN == 7

\* v in n bytes, most significant byte first
RECURSIVE LE_big_endian(_, _)
LE_big_endian(v, n) ==
  IF n = 0 THEN <<>> ELSE LE_big_endian(v \div 256, n - 1) \o <<v % 256>>

\* to_le_bytes of v in an unsigned type of n bytes: the n low bytes of v, so
\* that LE(v, 4) is (v as u32).to_le_bytes()
RECURSIVE LE(_, _)
LE(v, n) == IF n = 0 THEN <<>> ELSE <<v % 256>> \o LE(v \div 256, n - 1)

\* from_le_bytes
RECURSIVE FromLE(_)
FromLE(bytes) ==
  IF bytes = <<>> THEN 0 ELSE bytes[1] + 256 * FromLE(Tail(bytes))

\* bincode::serialize of RstfHeader: the bool as one byte, the string as its
\* length in 8 little-endian bytes and its bytes, the u64 as 8 bytes.
serialize(header) ==
  <<IF header.is_dir THEN 1 ELSE 0>>
    \o LE(Len(header.original_name), 8) \o header.original_name
    \o LE(header.original_size, 8)

NoHeader == [is_dir |-> FALSE, original_name |-> <<>>, original_size |-> 0]

\* bincode::deserialize: ok is FALSE where it returns an error
deserialize(bytes) ==
  IF Len(bytes) < 9 \/ bytes[1] \notin {0, 1}
  THEN [ok |-> FALSE, header |-> NoHeader]
  ELSE LET n == FromLE(SubSeq(bytes, 2, 9))
       IN IF Len(bytes) < 17 + n
          THEN [ok |-> FALSE, header |-> NoHeader]
          ELSE [ok |-> TRUE,
                header |-> [is_dir |-> bytes[1] = 1,
                            original_name |-> SubSeq(bytes, 10, 9 + n),
                            original_size |-> FromLE(SubSeq(bytes, 10 + n, 17 + n))]]

\* The compression codec is a black box.  Its stream is modelled as one
\* symbol per payload byte followed by an end-of-frame symbol, none of them
\* a byte value, so that compressed and plain bytes cannot be confused.
ZData(b) == 256 + b

ZEnd == 512

compress(payload) == [i \in 1..Len(payload) |-> ZData(payload[i])]

\* The decoder after the symbols syms, from state z ("start", "frame" or
\* "end" of a frame): the bytes it yields, its state, and whether it failed.
RECURSIVE decompress(_, _)
decompress(z, syms) ==
  IF syms = <<>> THEN [z |-> z, bytes |-> <<>>, ok |-> TRUE]
  ELSE IF syms[1] = ZEnd
  THEN decompress("end", Tail(syms))
  ELSE IF syms[1] >= 256 /\ syms[1] < 512
  THEN LET r == decompress("frame", Tail(syms))
       IN [r EXCEPT !.bytes = <<syms[1] - 256>> \o @]
  ELSE [z |-> z, bytes |-> <<>>, ok |-> FALSE]

\* a derivation that does not depend on the credentials
derive_salt_only(credentials, salt) == <<"right", salt>>

\* The Argon2 derivation, taken as an injective function of the credentials
\* (password and keyfile digest) and the salt.
derive(credentials, salt) == <<credentials, salt>>

NoKey == <<>>

\* process_credentials: credOk is FALSE where the prompt, the keyfile or the
\* derivation fails.
process_credentials(salt, credentials, credOk) ==
  IF credOk THEN [ok |-> TRUE, key |-> derive(credentials, salt)]
  ELSE [ok |-> FALSE, key |-> NoKey]

\* rand::thread_rng().gen(): the values the model draws from
Salts == {[i \in 1..SALT_LEN |-> v] : v \in {1, 2}}

Nonces == {[i \in 1..NONCE_LEN |-> 3]}

Credentials == {"right", "wrong"}

Payloads == {<<>>, <<7, 8>>}

TheName == <<97>>

\* the size of the decoder's read buffer, larger than a frame's plaintext
ZSTD_IN_SIZE == CHUNK_SIZE + 1

\* ------------------------------------------------------------------------
\* State.
\* ------------------------------------------------------------------------
VARIABLES
  ew,        \* the EncryptedWriter
  dropped,   \* the sealer has been dropped
  written,   \* (history) the bytes of every write call, in order
  wres,      \* (history) the last sealer call and its result
  nflush,    \* (history) number of flush calls
  wfailed,   \* (history) some write or flush call returned an error
  tam,       \* how the stream was altered on its way to the opener
  opened,    \* a DecryptedReader has been constructed
  rd,        \* the DecryptedReader
  rpc,       \* position of the pending read call: "idle" or "fill"
  rn,        \* length of the caller's buffer in the pending read call
  ebuf,      \* encrypted_buf[..read_bytes] of the pending read call
  rres,      \* (history) the result of the last read call
  rfailed,   \* (history) some read call returned an error
  out,       \* (history) every byte copied into caller buffers, in order
  rlog,      \* (history) the frames opened: counter and plaintext length
  nintr,     \* (history) number of Err results of the inner source so far
  pk,        \* the run of pack: its position, locals and inputs
  up         \* the run of unpack or list: its position and locals (key is
             \* the local `key` buffer, which no statement overwrites)

wvars == <<ew, dropped, written, wres, nflush, wfailed>>

rvars == <<tam, opened, rd, rpc, rn, ebuf, rres, rfailed, out, rlog, nintr>>

tvars == <<pk, up>>

vars == <<wvars, rvars, tvars>>

TheKey == "key"

TheNonce == "nonce"

Init ==
  /\ ew = new_writer(new_sink, TheKey, TheNonce)
  /\ dropped = FALSE
  /\ written = <<>>
  /\ wres = [op |-> "new", ok |-> TRUE, n |-> 0, given |-> 0]
  /\ nflush = 0
  /\ wfailed = FALSE
  /\ tam = "none"
  /\ opened = FALSE
  /\ rd = new_reader(<<>>, TheKey, TheNonce)
  /\ rpc = "idle"
  /\ rn = 0
  /\ ebuf = <<>>
  /\ rres = [kind |-> "none", n |-> 0, want |-> 0]
  /\ rfailed = FALSE
  /\ out = <<>>
  /\ rlog = <<>>
  /\ nintr = 0
  /\ pk = [pc |-> "start", salt |-> <<>>, nonce |-> <<>>, key |-> NoKey,
           is_dir |-> FALSE, payload |-> <<>>, wipe |-> FALSE,
           header |-> NoHeader, pending |-> <<>>, orig |-> TRUE]
  /\ up = [pc |-> "start", op |-> "none", credentials |-> "none",
           salt |-> <<>>, nonce |-> <<>>, need |-> 0, waiting |-> FALSE,
           header_len |-> 0, header |-> NoHeader, z |-> "start",
           created |-> FALSE, outdata |-> <<>>, err |-> "none", key |-> NoKey]

\* ----- the sealer's caller -----
\* The sealer and the opener copy plaintext bytes and never look at them, so
\* the caller's bytes are numbered in the order they are written: a byte that
\* is lost, repeated or moved shows in what the opener returns.
Stamps(from, n) == [i \in 1..n |-> from + i]

\* A first write call may hand over BulkLen bytes at once, which brings the
\* frame counter within one frame of COUNTER_MAX.
BulkLen == (COUNTER_MAX - 1) * CHUNK_SIZE

Bulk == IF Len(written) >= BulkLen THEN BulkLen ELSE 0

WriteLens ==
  (0..Min(MaxWrite, MaxTotal - (Len(written) - Bulk)))
    \cup (IF written = <<>> THEN {BulkLen} ELSE {})

Write ==
  /\ ~dropped
  /\ \E len \in WriteLens :
       LET buf == Stamps(Len(written), len)
           r == write(ew, buf)
       IN /\ ew' = r.self
          /\ wres' = [op |-> "write", ok |-> r.ok, n |-> r.n, given |-> Len(buf)]
          /\ written' = written \o buf
          /\ wfailed' = (wfailed \/ ~r.ok)
  /\ UNCHANGED <<dropped, nflush, rvars, tvars>>

Flush ==
  /\ ~dropped
  /\ nflush < MaxFlush
  /\ LET r == flush(ew)
     IN /\ ew' = r.self
        /\ wres' = [op |-> "flush", ok |-> r.ok, n |-> 0, given |-> 0]
        /\ wfailed' = (wfailed \/ ~r.ok)
  /\ nflush' = nflush + 1
  /\ UNCHANGED <<dropped, written, rvars, tvars>>

Drop ==
  /\ ~dropped
  /\ ew' = drop(ew)
  /\ wres' = [op |-> "drop", ok |-> TRUE, n |-> 0, given |-> 0]
  /\ dropped' = TRUE
  /\ UNCHANGED <<written, nflush, wfailed, rvars, tvars>>

\* ----- the stream reaches an opener -----
\* The sealer was not flushed and its drop sealed the closing frame.
Closed(w) == w.log # <<>> /\ w.log[Len(w.log)].fin

WellFormed == nflush = 0 /\ Closed(ew) /\ Bulk = 0

\* (The output of a device that failed is not read.)
Open ==
  /\ dropped
  /\ ~opened
  /\ ew.inner.ok
  /\ \E kind \in TamperKinds :
       /\ (kind # "none") => WellFormed
       /\ \E source \in Tampered(kind, ew.inner.file, ew.log, TheKey, TheNonce) :
            /\ rd' = new_reader(source, TheKey, TheNonce)
            /\ tam' = kind
  /\ opened' = TRUE
  /\ UNCHANGED <<wvars, rpc, rn, ebuf, rres, rfailed, out, rlog, nintr, tvars>>

\* ----- the opener's caller and its inner source -----
Return(r, n) ==
  /\ rd' = r.self
  /\ rres' = [kind |-> r.kind, n |-> r.n, want |-> n]
  /\ rfailed' = (rfailed \/ r.kind # "Ok")
  /\ out' = out \o r.bytes
  /\ rlog' = rlog \o r.opened
  /\ rpc' = "idle"
  /\ ebuf' = <<>>

\* read(buf), buf of n bytes, up to its first call of self.inner.read, or to
\* its return
BeginRead(n) ==
  /\ rn' = n
  /\ IF rd.offset >= Len(rd.buffer)
     THEN IF rd.eof
          THEN Return([self |-> rd, kind |-> "Ok", n |-> 0,
                       bytes |-> <<>>, opened |-> <<>>], n)
          ELSE /\ rpc' = "fill"
               /\ ebuf' = <<>>
               /\ UNCHANGED <<rd, rres, rfailed, out, rlog>>
     ELSE Return(serve(rd, n), n)

\* a caller reads with a buffer of any length
ReadCall ==
  /\ opened
  /\ rpc = "idle"
  /\ \E n \in 0..MaxBuf : BeginRead(n)
  /\ UNCHANGED <<wvars, tam, opened, nintr, tvars>>

\* InnerReadSome with a loop that ends at the first read result which does
\* not fill encrypted_buf
InnerReadSome_short_ends ==
  /\ rpc = "fill"
  /\ \E k \in 1..Min(encrypted_chunk_size - Len(ebuf), Len(rd.inner)) :
       LET chunk == ebuf \o Take(rd.inner, k)
           fed == [rd EXCEPT !.inner = Skip(@, k)]
       IN Return(after_fill(fed, chunk, rn), rn)
  /\ UNCHANGED <<wvars, tam, opened, rn, nintr, tvars>>

\* self.inner.read returns Ok(k), k > 0: the loop goes on, or ends with a
\* full encrypted_buf and read runs to its return
InnerReadSome ==
  /\ rpc = "fill"
  /\ \E k \in 1..Min(encrypted_chunk_size - Len(ebuf), Len(rd.inner)) :
       LET chunk == ebuf \o Take(rd.inner, k)
           fed == [rd EXCEPT !.inner = Skip(@, k)]
       IN IF Len(chunk) < encrypted_chunk_size
          THEN /\ ebuf' = chunk
               /\ rd' = fed
               /\ UNCHANGED <<rpc, rres, rfailed, out, rlog>>
          ELSE Return(after_fill(fed, chunk, rn), rn)
  /\ UNCHANGED <<wvars, tam, opened, rn, nintr, tvars>>

\* self.inner.read returns Ok(0): break, and read runs to its return
InnerReadZero ==
  /\ rpc = "fill"
  /\ rd.inner = <<>>
  /\ Return(after_fill(rd, ebuf, rn), rn)
  /\ UNCHANGED <<wvars, tam, opened, rn, nintr, tvars>>

\* self.inner.read returns Err(Interrupted): the loop retries
InnerReadInterrupted ==
  /\ rpc = "fill"
  /\ nintr < MaxIntr
  /\ nintr' = nintr + 1
  /\ UNCHANGED <<wvars, tam, opened, rd, rpc, rn, ebuf, rres, rfailed, out, rlog, tvars>>

Next ==
  \/ Write
  \/ Flush
  \/ Drop
  \/ Open
  \/ ReadCall
  \/ InnerReadSome
  \/ InnerReadZero
  \/ InnerReadInterrupted

\* The sealer and the opener on their own: any calls on one sealer, the
\* stream possibly altered, any reads on one opener.
Spec == Init /\ [][Next]_vars

\* The kinds of the errors self.inner.read returns, Interrupted apart: those
\* an operating system error decodes to, none of which is InvalidData.
InnerErrorKinds == {"Io"}

\* self.inner.read returns Err(e), e not Interrupted: read returns Err(e), and
\* what the loop had read of the frame is lost with encrypted_buf.  (Like
\* tampering, a failing source is explored for the streams without the bulk
\* write.)
InnerReadError ==
  /\ rpc = "fill"
  /\ Bulk = 0
  /\ nintr < MaxIntr
  /\ nintr' = nintr + 1
  /\ \E kind \in InnerErrorKinds :
       Return([self |-> rd, kind |-> kind, n |-> 0,
               bytes |-> <<>>, opened |-> <<>>], rn)
  /\ UNCHANGED <<wvars, tam, opened, rn, tvars>>

\* ------------------------------------------------------------------------
\* pack.  Until line 283 ew.inner stands for the local `writer`; from there on
\* ew is `crypto_writer`.
\* ------------------------------------------------------------------------
PackFails == pk' = [pk EXCEPT !.pc = "err"]

\* lines 241-243
PackBegin ==
  /\ pk.pc = "start"
  /\ \E salt \in Salts, credOk \in BOOLEAN, is_dir \in BOOLEAN,
        payload \in Payloads, wipe \in BOOLEAN :
       LET c == process_credentials(salt, "right", credOk)
       IN pk' = [pk EXCEPT !.salt = salt, !.key = c.key, !.is_dir = is_dir,
                           !.payload = payload, !.wipe = wipe,
                           !.pc = IF c.ok THEN "create" ELSE "err"]
  /\ UNCHANGED <<wvars, rvars, up>>

\* lines 254-259
PackCreate ==
  /\ pk.pc = "create"
  /\ \E createOk \in BOOLEAN, nonce \in Nonces :
       IF ~createOk
       THEN PackFails /\ UNCHANGED ew
       ELSE LET writer == [new_sink EXCEPT !.ok = ew.inner.ok]
                w1 == write_all(writer, pk.salt)
                w2 == write_all(w1.sink, nonce)
            IN IF w1.ok /\ w2.ok
               THEN /\ ew' = [ew EXCEPT !.inner = w2.sink]
                    /\ pk' = [pk EXCEPT !.nonce = nonce, !.pc = "header"]
               ELSE /\ ew' = [ew EXCEPT !.inner =
                                sink_drop(IF w1.ok THEN w2.sink ELSE w1.sink)]
                    /\ PackFails
  /\ UNCHANGED <<dropped, written, wres, nflush, wfailed, rvars, up>>

\* lines 261-286
PackHeader ==
  /\ pk.pc = "header"
  /\ \E metadataOk \in BOOLEAN :
       IF ~metadataOk
       THEN /\ ew' = [ew EXCEPT !.inner = sink_drop(@)]
            /\ PackFails
            /\ UNCHANGED <<dropped, written, wfailed>>
       ELSE LET total_size == IF pk.is_dir THEN 0 ELSE Len(pk.payload)
                header == [is_dir |-> pk.is_dir, original_name |-> TheName,
                           original_size |-> total_size]
                header_bytes == serialize(header)
                header_len == Len(header_bytes)
                crypto_writer == new_writer(ew.inner, pk.key, pk.nonce)
                r1 == write(crypto_writer, LE(header_len, 4))
                r2 == write(r1.self, header_bytes)
            IN IF r1.ok /\ r2.ok
               THEN /\ ew' = r2.self
                    /\ written' = LE(header_len, 4) \o header_bytes
                    /\ pk' = [pk EXCEPT !.header = header, !.pc = "zstd"]
                    /\ UNCHANGED <<dropped, wfailed>>
               ELSE /\ ew' = drop(IF r1.ok THEN r2.self ELSE r1.self)
                    /\ written' = LE(header_len, 4)
                                    \o (IF r1.ok THEN header_bytes ELSE <<>>)
                    /\ dropped' = TRUE
                    /\ wfailed' = TRUE
                    /\ pk' = [pk EXCEPT !.header = header, !.pc = "err"]
  /\ UNCHANGED <<wres, nflush, rvars, up>>

\* lines 288-295: the encoder is built over crypto_writer
PackZstd ==
  /\ pk.pc = "zstd"
  /\ \E encoderOk \in BOOLEAN :
       IF encoderOk
       THEN /\ pk' = [pk EXCEPT !.pc = "copy"]
            /\ UNCHANGED <<ew, dropped>>
       ELSE /\ ew' = drop(ew)
            /\ dropped' = TRUE
            /\ PackFails
  /\ UNCHANGED <<written, wres, nflush, wfailed, rvars, up>>

\* lines 297-307: the payload goes into the encoder, which hands the first
\* emit symbols of its stream to crypto_writer and keeps the rest; copyOk is
\* FALSE where reading the input fails.
PackCopy ==
  /\ pk.pc = "copy"
  /\ \E copyOk \in BOOLEAN, emit \in 0..Len(pk.payload) :
       LET syms == compress(pk.payload)
           r == write(ew, Take(syms, emit))
       IN /\ written' = written \o Take(syms, emit)
          /\ wfailed' = (wfailed \/ ~r.ok)
          /\ IF r.ok /\ copyOk
             THEN /\ ew' = r.self
                  /\ pk' = [pk EXCEPT !.pending = Skip(syms, emit), !.pc = "finish"]
                  /\ UNCHANGED dropped
             ELSE /\ ew' = drop(r.self)
                  /\ dropped' = TRUE
                  /\ PackFails
  /\ UNCHANGED <<wres, nflush, rvars, up>>

\* line 309: finish writes what the encoder still holds and the end of its
\* frame, and returns crypto_writer, which is dropped there and then.
PackFinish ==
  /\ pk.pc = "finish"
  /\ LET r == write(ew, pk.pending \o <<ZEnd>>)
     IN /\ written' = written \o pk.pending \o <<ZEnd>>
        /\ wfailed' = (wfailed \/ ~r.ok)
        /\ ew' = drop(r.self)
        /\ dropped' = TRUE
        /\ pk' = [pk EXCEPT !.pending = <<>>,
                            !.pc = IF ~r.ok THEN "err"
                                   ELSE IF pk.wipe THEN "wipe" ELSE "ok"]
  /\ UNCHANGED <<wres, nflush, rvars, up>>

\* lines 311-333: the offer to delete the original
PackWipe ==
  /\ pk.pc = "wipe"
  /\ \E promptOk \in BOOLEAN, yes \in BOOLEAN, removeOk \in BOOLEAN :
       IF ~promptOk \/ (yes /\ ~removeOk)
       THEN PackFails
       ELSE pk' = [pk EXCEPT !.orig = ~yes, !.pc = "ok"]
  /\ UNCHANGED <<wvars, rvars, up>>

\* the device of the output file stops accepting writes
DiskFails ==
  /\ pk.pc \notin {"ok", "err"}
  /\ ew.inner.ok
  /\ ew' = [ew EXCEPT !.inner.ok = FALSE]
  /\ UNCHANGED <<dropped, written, wres, nflush, wfailed, rvars, tvars>>

\* the device fails under a sealer that is still in use
SinkFails == ~dropped /\ DiskFails

NextIo ==
  \/ Next
  \/ InnerReadError
  \/ SinkFails

\* The sealer and the opener with an inner sink and an inner source that may
\* fail.
SpecIo == Init /\ [][NextIo]_vars

\* ------------------------------------------------------------------------
\* unpack and list, over the file pack left.
\* ------------------------------------------------------------------------
PREFIX_LEN == SALT_LEN + NONCE_LEN

\* the file cut within MaxCut bytes of its start or of its end
Cuts(file) ==
  {t \in Truncations(file) : Len(t) < MaxCut \/ Len(file) - Len(t) <= MaxCut}

\* the sealed stream with the first byte of one of its frames altered
FrameModifications(sealed) ==
  {m \in Modifications(sealed) :
     \E i \in DOMAIN m : m[i].x /\ i % encrypted_chunk_size = 1}

\* the containers unpack may be given: the file as pack left it, or with a
\* suffix removed, or with a byte of its sealed stream altered
Containers(kind, file) ==
  CASE kind = "none" -> {file}
    [] kind = "truncate" -> Cuts(file)
    [] kind = "modify" ->
         {Take(file, PREFIX_LEN) \o m : m \in FrameModifications(Skip(file, PREFIX_LEN))}

UnpackFails(e) == up' = [up EXCEPT !.pc = "err", !.err = e, !.waiting = FALSE]

\* unpack lines 340-355, list lines 391-404
UnpackBegin ==
  /\ pk.pc = "ok"
  /\ up.pc = "start"
  /\ \E op \in {"unpack", "list"}, credentials \in Credentials,
        credOk \in BOOLEAN, kind \in {"none", "truncate", "modify"} :
       /\ (kind # "none") => (op = "unpack" /\ credentials = "right" /\ credOk)
       /\ \E container \in Containers(kind, ew.inner.file) :
            LET salt == Take(container, SALT_LEN)
                nonce == SubSeq(container, SALT_LEN + 1, PREFIX_LEN)
                c == process_credentials(salt, credentials, credOk)
                begun == [up EXCEPT !.op = op, !.credentials = credentials]
            IN /\ tam' = kind
               /\ IF Len(container) < PREFIX_LEN
                  THEN /\ up' = [begun EXCEPT !.pc = "err", !.err = "UnexpectedEof"]
                       /\ UNCHANGED <<opened, rd>>
                  ELSE IF ~c.ok
                  THEN /\ up' = [begun EXCEPT !.salt = salt, !.nonce = nonce,
                                              !.pc = "err", !.err = "Credential"]
                       /\ UNCHANGED <<opened, rd>>
                  ELSE /\ up' = [begun EXCEPT !.salt = salt, !.nonce = nonce,
                                              !.key = c.key,
                                              !.pc = "len", !.need = 4]
                       /\ opened' = TRUE
                       /\ rd' = new_reader(Skip(container, PREFIX_LEN), c.key, nonce)
  /\ UNCHANGED <<wvars, rpc, rn, ebuf, rres, rfailed, out, rlog, nintr, pk>>

\* an operation that goes on to the payload whatever it is
stops_never(op) == FALSE

\* list prints the header and returns (lines 415-423) where unpack goes on
\* to the payload (lines 367-386)
stops_after_header(op) == op = "list"

\* read_exact calls crypto_reader.read for what it still needs
ReadExactCall ==
  /\ up.pc \in {"len", "hdr"}
  /\ ~up.waiting
  /\ rpc = "idle"
  /\ BeginRead(up.need)
  /\ up' = [up EXCEPT !.waiting = TRUE]
  /\ UNCHANGED <<wvars, tam, opened, nintr, pk>>

\* crypto_reader.read has returned to read_exact; when read_exact is done,
\* unpack (lines 361-380) or list (lines 410-423) goes on
ReadExactRet ==
  /\ up.pc \in {"len", "hdr"}
  /\ up.waiting
  /\ rpc = "idle"
  /\ \E decoderOk \in BOOLEAN, createOk \in BOOLEAN :
       IF rres.kind # "Ok" THEN UnpackFails(rres.kind)
       ELSE IF rres.n = 0 THEN UnpackFails("UnexpectedEof")
       ELSE IF up.need > rres.n
       THEN up' = [up EXCEPT !.need = @ - rres.n, !.waiting = FALSE]
       ELSE IF up.pc = "len"
       THEN LET header_len == FromLE(Take(out, 4))
            IN up' = [up EXCEPT !.header_len = header_len, !.need = header_len,
                                !.pc = "hdr", !.waiting = FALSE]
       ELSE LET d == deserialize(SubSeq(out, 5, 4 + up.header_len))
                read == [up EXCEPT !.header = d.header, !.need = 0, !.waiting = FALSE]
            IN IF ~d.ok THEN UnpackFails("Format")
               ELSE IF stops_after_header(up.op) THEN up' = [read EXCEPT !.pc = "ok"]
               ELSE IF ~decoderOk THEN UnpackFails("Decoder")
               ELSE IF d.header.is_dir THEN up' = [read EXCEPT !.pc = "body"]
               ELSE IF ~createOk THEN UnpackFails("Io")
               ELSE up' = [read EXCEPT !.pc = "body", !.created = TRUE]
  /\ UNCHANGED <<wvars, rvars, pk>>

\* lines 376-383: the decoder refills its input buffer from crypto_reader
BodyCall ==
  /\ up.pc = "body"
  /\ ~up.waiting
  /\ rpc = "idle"
  /\ BeginRead(ZSTD_IN_SIZE)
  /\ up' = [up EXCEPT !.waiting = TRUE]
  /\ UNCHANGED <<wvars, tam, opened, nintr, pk>>

\* lines 376-385: the decoder decodes what it was given and the bytes it
\* yields are written out
BodyRet ==
  /\ up.pc = "body"
  /\ up.waiting
  /\ rpc = "idle"
  /\ IF rres.kind # "Ok" THEN UnpackFails(rres.kind)
     ELSE IF rres.n = 0
     THEN IF up.z = "frame" THEN UnpackFails("UnexpectedEof")
          ELSE up' = [up EXCEPT !.pc = "ok", !.waiting = FALSE]
     ELSE LET d == decompress(up.z, SubSeq(out, Len(out) - rres.n + 1, Len(out)))
              wrote == [up EXCEPT !.outdata = @ \o d.bytes, !.z = d.z,
                                  !.waiting = FALSE]
          IN IF d.ok THEN up' = wrote
             ELSE up' = [wrote EXCEPT !.pc = "err", !.err = "Compression"]
  /\ UNCHANGED <<wvars, rvars, pk>>

NextTool ==
  \/ PackBegin
  \/ PackCreate
  \/ PackHeader
  \/ PackZstd
  \/ PackCopy
  \/ PackFinish
  \/ PackWipe
  \/ DiskFails
  \/ UnpackBegin
  \/ ReadExactCall
  \/ ReadExactRet
  \/ BodyCall
  \/ BodyRet
  \/ InnerReadSome
  \/ InnerReadZero
  \/ InnerReadInterrupted

\* pack, then unpack or list over the file it left.
SpecTool == Init /\ [][NextTool]_vars

\* ------------------------------------------------------------------------
\* Properties of the sealed stream.
\* ------------------------------------------------------------------------
IsPrefix(s, t) == Len(s) <= Len(t) /\ s = Take(t, Len(s))

\* no read call has returned an error, and the last one had a non-empty
\* buffer and returned Ok(0)
CleanEnd ==
  /\ opened /\ rpc = "idle" /\ ~rfailed
  /\ rres.kind = "Ok" /\ rres.n = 0 /\ rres.want > 0

\* the opener has opened a frame that the sealer sealed with final_chunk set
TerminalOpened ==
  \E i \in DOMAIN rlog, j \in DOMAIN ew.log :
     ew.log[j].c = rlog[i].c /\ ew.log[j].fin

\* the opener has returned no error and only the written bytes, in order, and
\* all of them once it reports the end of the stream
OpenerFaithful ==
  /\ ~rfailed
  /\ IsPrefix(out, written)
  /\ CleanEnd => out = written

\* what the frame counter lets one sealer carry
Capacity == COUNTER_MAX * CHUNK_SIZE

C2_TruncationDetected ==
  (tam = "truncate" /\ CleanEnd) => TerminalOpened

\* C3: on a stream with a frame modified, two frames swapped, a frame
\* duplicated or dropped, or a frame appended, the opener never reports a
\* clean end of the stream.
C3_TamperDetected ==
  (tam \in {"modify", "swap", "duplicate", "drop", "append"}) => ~CleanEnd

\* C5: once the sealer is closed exactly one frame was sealed with the AEAD
\* last-frame flag, and it is the last frame of the stream.
C5_OneLastFlag ==
  dropped => /\ ew.log # <<>>
             /\ \A i \in DOMAIN ew.log : ew.log[i].l = (i = Len(ew.log))

\* C6: a flush does not disturb the stream: when every call on the sealer
\* succeeded and its drop sealed the closing frame, the opener returns
\* exactly the written bytes, flushed or not.
C6_FlushHarmless ==
  (opened /\ tam = "none" /\ ~wfailed /\ Closed(ew)) => OpenerFaithful

\* C7: a sealer never emits a second closing frame.
C7_OneTerminalFrame ==
  Cardinality({i \in DOMAIN ew.log : ew.log[i].fin}) <= 1

\* ------------------------------------------------------------------------
\* Properties of pack, unpack and list.
\* ------------------------------------------------------------------------
\* the frame sealed last was sealed by a closing call, the sink accepted all
\* of it, and nothing the sink accepted is still outside the file
TerminalWritten ==
  /\ ew.log # <<>>
  /\ LET e == ew.log[Len(ew.log)]
     IN e.fin /\ e.wrote = e.len + TAG_SIZE
  /\ ew.inner.buf = <<>>

\* C4: when unpack fails on a frame of an altered container, it has created
\* no output file and has written no byte of payload.
C4_NoPlaintextBeforeAuth ==
  (up.op = "unpack" /\ tam = "modify" /\ up.pc = "err" /\ up.err = "InvalidData")
    => (~up.created /\ up.outdata = <<>>)

\* C8: pack reaches the offer to delete the original, or success, only with
\* the closing frame in the output file.
C8_NoSilentRecovery ==
  (pk.pc \in {"wipe", "ok"}) => TerminalWritten

\* C9: unpack with a key other than the one pack used opens no frame: it is
\* still reading the first one, or has failed on it with the decryption
\* error, and it has created no file and written no payload.
C9_WrongCredentialRejected ==
  (up.op = "unpack" /\ up.credentials = "wrong" /\ opened) =>
     /\ rd.key # pk.key
     /\ up.pc \in {"len", "err"}
     /\ (up.pc = "err") => (up.err = "InvalidData")
     /\ rd.position = 0 /\ rlog = <<>> /\ out = <<>>
     /\ ~up.created /\ up.outdata = <<>>

C9_Witness ==
  /\ up.op = "unpack" /\ up.credentials = "wrong" /\ opened
  /\ up.pc = "err" /\ up.err = "InvalidData"
  /\ pk.payload # <<>>

\* every byte the output file's writer has accepted, and the part of it
\* after the salt and the base nonce
Container == Accepted(ew.inner)

SealedPart == Skip(Container, PREFIX_LEN)

\* the plaintext the sealer was fed: what the accepted frames carry, then
\* what it still buffers
Fed ==
  LET carried == SelectSeq(SealedPart, LAMBDA b : b.p # TagByte)
  IN [i \in 1..Len(carried) |-> carried[i].p] \o ew.buffer

\* the plaintext of a whole container
Layout ==
  LE(Len(serialize(pk.header)), 4) \o serialize(pk.header)
    \o compress(pk.payload) \o <<ZEnd>>

\* C10 (write order): once the sealer holds or has sealed a byte, the output
\* starts with the salt and then the base nonce; what the sealer was fed is
\* the start of: header_len in 4 little-endian bytes, the header_len header
\* bytes, the compressed payload; and all of it when pack succeeds and every
\* frame reached the file.
C10_PackLayout ==
  /\ (ew.log # <<>> \/ ew.buffer # <<>>) =>
        /\ Len(Container) >= PREFIX_LEN
        /\ Take(Container, SALT_LEN) = pk.salt
        /\ SubSeq(Container, SALT_LEN + 1, PREFIX_LEN) = pk.nonce
        /\ Len(pk.salt) = 16 /\ Len(pk.nonce) = 7
  /\ IsPrefix(Fed, Layout)
  /\ (Len(Fed) >= 4) => FromLE(Take(Fed, 4)) = Len(serialize(pk.header))
  /\ (pk.pc = "ok" /\ TerminalWritten) =>
        LET header_len == FromLE(Take(Fed, 4))
        IN /\ SubSeq(Fed, 5, 4 + header_len) = serialize(pk.header)
           /\ Skip(Fed, 4 + header_len) = compress(pk.payload) \o <<ZEnd>>

\* C10 (read order): over the container as pack left it, unpack and list take
\* the salt, the base nonce, header_len and the header from where pack put
\* them, and unpack yields the payload, all of it when it succeeds on a
\* container whose every frame reached the file.
C10_UnpackLayout ==
  (tam = "none" /\ up.pc # "start" /\ Len(ew.inner.file) >= PREFIX_LEN) =>
     /\ up.salt = pk.salt /\ up.nonce = pk.nonce
     /\ (up.credentials = "right") =>
          /\ (up.pc \in {"hdr", "body", "ok"}) =>
                up.header_len = Len(serialize(pk.header))
          /\ (up.pc \in {"body", "ok"}) => up.header = pk.header
          /\ IsPrefix(up.outdata, pk.payload)
          /\ (up.op = "unpack" /\ up.pc = "ok" /\ TerminalWritten) =>
                up.outdata = pk.payload

\* C10: the container layout, as written by pack and as read by unpack and
\* list.
C10_Layout == C10_PackLayout /\ C10_UnpackLayout

C10_Witness ==
  /\ pk.pc = "ok" /\ TerminalWritten /\ pk.payload # <<>>
  /\ Fed = Layout
  /\ tam = "none" /\ up.op = "unpack" /\ up.pc = "ok"
  /\ up.outdata = pk.payload

\* C11: when pack, unpack or list has returned, with success or with an
\* error, its key buffer no longer holds the derived key.
C11_KeyWiped ==
  /\ (pk.pc \in {"ok", "err"}) => pk.key = NoKey
  /\ (up.pc \in {"ok", "err"}) => up.key = NoKey

\* C12: list reads header_len and the header as unpack does and stops there:
\* it never builds the decoder, creates a file or writes a byte, it takes
\* from the opener no byte past the header, what it reports is the header pack
\* wrote, and with another key it fails on the first frame.
C12_ListStops ==
  (up.op = "list") =>
     /\ up.pc \in {"len", "hdr", "ok", "err"}
     /\ ~up.created /\ up.outdata = <<>> /\ up.z = "start"
     /\ Len(out) <= 4 + up.header_len
     /\ (up.pc = "len") => Len(out) <= 4
     /\ (up.pc = "ok") =>
          /\ out = LE(Len(serialize(up.header)), 4) \o serialize(up.header)
          /\ up.header = pk.header
     /\ (up.key # NoKey /\ up.key # pk.key) =>
          /\ up.pc \in {"len", "err"}
          /\ (up.pc = "err") => (up.err = "InvalidData")
          /\ rd.position = 0 /\ rlog = <<>> /\ out = <<>>

C12_Witness ==
  /\ up.op = "list" /\ up.pc = "ok"
  /\ pk.payload # <<>> /\ up.header = pk.header
  /\ Len(rd.inner) > 0

\* the frames the sealer has emitted, as its log records them, all but the
\* last sealing CHUNK_SIZE bytes in CHUNK_SIZE + TAG_SIZE wire bytes and the
\* last one at most that
FrameSizes(log) ==
  \A i \in DOMAIN log :
     /\ log[i].wrote = log[i].len + TAG_SIZE
     /\ log[i].len <= CHUNK_SIZE
     /\ (i < Len(log)) => log[i].len = CHUNK_SIZE
     /\ (~log[i].fin) => log[i].len = CHUNK_SIZE

\* C13: over any sequence of write, flush and drop, write emits only frames
\* of exactly CHUNK_SIZE plaintext bytes, every frame before the closing one
\* is such a frame, and the closing frame carries at most CHUNK_SIZE bytes.
C13_FrameSizeContract == FrameSizes(ew.log)

\* the sealer has sealed frames under the counters 0, 1, 2, ... and never
\* past COUNTER_MAX, the k-th frame of its output carries the counter k, and
\* the opener has opened frames under the counters 0, 1, 2, ...
Counters ==
  /\ ew.position = Len(ew.log) /\ ew.position <= COUNTER_MAX
  /\ \A i \in DOMAIN ew.log : ew.log[i].c = i - 1
  /\ LET fs == FramesOf(ew.inner.file, ew.log)
     IN \A i \in DOMAIN fs : \A j \in DOMAIN fs[i] : fs[i][j].c = i - 1
  /\ rd.position = Len(rlog) /\ rd.position <= COUNTER_MAX
  /\ \A i \in DOMAIN rlog : rlog[i].c = i - 1

\* a call on the sealer that has to seal a frame while the counter is
\* exhausted: the call (a drop apart, which returns nothing) returns an
\* error, and no frame is sealed or emitted
ExhaustedCall ==
  /\ Write \/ Flush \/ Drop
  /\ ew.position = COUNTER_MAX
  /\ wres'.op = "write" =>
       (wres'.given > 0 /\ Len(ew.buffer) + wres'.given >= CHUNK_SIZE)

SealingFails ==
  /\ wres'.op \in {"write", "flush"} => ~wres'.ok
  /\ ew'.position = ew.position /\ ew'.log = ew.log
  /\ Accepted(ew'.inner) = Accepted(ew.inner)

FillReturns == rpc = "fill" /\ rpc' = "idle"

Gathered == ebuf \o Take(rd.inner, Len(rd.inner) - Len(rd'.inner))

GatheredOpens == Opens(rd.key, rd.nonce, rd.position, FALSE, Gathered)

\* what a returning read call has copied into the caller's buffer
Copied == SubSeq(out', Len(out) + 1, Len(out'))

\* a read that gathered a frame which does not open returns the decryption
\* error and nothing else happens; an error of the inner source is returned
\* as it is, and is no decryption error; a frame's plaintext reaches the
\* buffer only if the frame opened
FailedFrameKept ==
  FillReturns =>
     /\ (rres'.kind = "InvalidData") <=> (Gathered # <<>> /\ ~GatheredOpens /\ ~InnerReadError)
     /\ (rres'.kind \in InnerErrorKinds) <=> InnerReadError
     /\ (rres'.kind # "Ok") =>
          /\ rres'.n = 0 /\ out' = out /\ rlog' = rlog
          /\ rd'.buffer = rd.buffer /\ rd'.offset = rd.offset
          /\ rd'.position = rd.position /\ rd'.eof = rd.eof
     /\ (rd'.buffer # rd.buffer) => (GatheredOpens /\ rd'.buffer = Body(Gathered))

\* the bytes a read call returns are the ones of the plaintext buffer that
\* its offset has passed
CopiedFromBuffer ==
  (out' # out) =>
     /\ rres'.kind = "Ok" /\ rres'.n = Len(Copied)
     /\ Copied = SubSeq(rd'.buffer, rd'.offset - Len(Copied) + 1, rd'.offset)
     /\ (rd'.buffer # rd.buffer) => FillReturns

\* C15: the opener returns no byte of a frame that did not open.
C15_NoUnverifiedPlaintext == [][FailedFrameKept /\ CopiedFromBuffer]_vars

C15_Witness ==
  /\ tam = "modify" /\ rres.kind = "InvalidData" /\ rpc = "idle"
  /\ out # <<>> /\ Len(out) = Len(rd.buffer) /\ rd.position = 1

\* ------------------------------------------------------------------------
\* The release of the sealer in pack.
\* ------------------------------------------------------------------------
\* pack has returned, or is at the offer to delete the original, and had
\* built its sealer
PackLeft == pk.pc \in {"wipe", "ok", "err"} /\ pk.header # NoHeader

\* the closing frame as the sealer sealed it
ClosingFrame ==
  LET e == ew.log[Len(ew.log)]
  IN Seal(ew.key, ew.nonce, e.c, e.l, Skip(written, Len(written) - e.len))

\* the sealer was dropped and the closing call sealed a frame; what the sink
\* took of it is the last thing the sink took, and the sink was flushed after
\* it: nothing is left in the BufWriter of a file that accepts writes
Released ==
  PackLeft =>
     /\ dropped /\ Closed(ew)
     /\ LET e == ew.log[Len(ew.log)]
        IN /\ e.wrote \in {0, e.len + TAG_SIZE}
           /\ (e.wrote > 0) =>
                Skip(Accepted(ew.inner), Len(Accepted(ew.inner)) - e.wrote) = ClosingFrame
           /\ (e.wrote = 0) => ~ew.inner.ok
     /\ ew.inner.ok => (ew.inner.buf = <<>> /\ TerminalWritten)

\* what line 309 returns depends on finish alone, not on the drop after it
DropSilent ==
  (pk.pc = "finish" /\ pk'.pc # "finish") =>
     /\ dropped'
     /\ (pk'.pc = "err") <=> ~write(ew, pk.pending \o <<ZEnd>>).ok

\* C16: wherever pack leaves after building the sealer, the closing frame was
\* sealed into the BufWriter before the BufWriter was flushed, and a failure
\* of that sealing is not reported.
C16_ReleaseOrder == []Released /\ [][DropSilent]_vars

C16_Witness ==
  /\ pk.pc = "ok" /\ dropped /\ Closed(ew)
  /\ ~ew.inner.ok /\ ~TerminalWritten
  /\ ew.log[Len(ew.log)].wrote > 0

\* ------------------------------------------------------------------------
\* The opener and the way its source hands out the stream.
\* ------------------------------------------------------------------------
\* what the source had not yet returned when the running read call began
Unread == ebuf \o rd.inner

\* the frame the running read call has to gather, and the call over a source that returns all it is asked for at
\* once and is never interrupted
NextFrame == Take(Unread, Min(Len(Unread), encrypted_chunk_size))

WholeRead ==
  after_fill([rd EXCEPT !.inner = Skip(Unread, Len(NextFrame))], NextFrame, rn)

\* a read call that went to the source returns what WholeRead returns and
\* leaves the opener as WholeRead leaves it, however the source split the
\* frame and however often it was interrupted
AsWholeRead ==
  FillReturns =>
     /\ Gathered = NextFrame
     /\ rd' = WholeRead.self
     /\ rres' = [kind |-> WholeRead.kind, n |-> WholeRead.n, want |-> rn]
     /\ out' = out \o WholeRead.bytes
     /\ rlog' = rlog \o WholeRead.opened

\* while a read call is gathering a frame, a part of a frame is held and the
\* opener is as the call found it, but for the bytes taken from the source
Gathering ==
  (rpc = "fill") =>
     /\ Len(ebuf) < encrypted_chunk_size
     /\ ~rd.eof /\ rd.offset >= Len(rd.buffer)

\* C17: what a read call returns does not depend on how the source splits
\* the stream into read results, nor on interruptions.
C17_FragmentationIndependent == []Gathering /\ [][AsWholeRead]_vars

C17_Witness ==
  /\ rpc = "fill" /\ nintr > 0 /\ rlog # <<>> /\ out # <<>>
  /\ 0 < Len(ebuf) /\ rd.inner # <<>>

\* ------------------------------------------------------------------------
\* The frames of a sealer that was written to and dropped.
\* ------------------------------------------------------------------------
\* the sealer took N bytes in writes that all succeeded, was never flushed
\* and has been dropped
ClosedOnce == dropped /\ nflush = 0 /\ ~wfailed

\* floor(N / CHUNK_SIZE) full frames, then one frame of the N mod CHUNK_SIZE
\* bytes left, and these frames are all the sink took
FrameCount(N) ==
  LET full == N \div CHUNK_SIZE
  IN /\ Len(ew.log) = full + 1
     /\ \A i \in 1..full :
          i \in DOMAIN ew.log => ew.log[i].wrote = CHUNK_SIZE + TAG_SIZE
     /\ (full + 1 \in DOMAIN ew.log) =>
          /\ ew.log[full + 1].wrote = (N % CHUNK_SIZE) + TAG_SIZE
          /\ ew.log[full + 1].wrote < CHUNK_SIZE + TAG_SIZE
     /\ Len(Accepted(ew.inner)) = full * (CHUNK_SIZE + TAG_SIZE)
                                    + (N % CHUNK_SIZE) + TAG_SIZE

\* C18: a sealer that took N bytes and was dropped without a flush has
\* emitted floor(N / CHUNK_SIZE) full frames and one shorter final frame.
C18_FrameCount == ClosedOnce => FrameCount(Len(written))

\* ------------------------------------------------------------------------
\* The plaintext buffer of the sealer.
\* ------------------------------------------------------------------------
BufferBound == Len(ew.buffer) <= CHUNK_SIZE

\* the last call on the sealer was a write, and it returned Ok
WriteReturnedOk == wres.op = "write" /\ wres.ok /\ ~dropped

\* C19, as stated: the buffer never holds more than CHUNK_SIZE bytes, and
\* after a write that returned Ok it holds fewer and the write reported all
\* the bytes it was given.
C19_BufferInvariantAnyWrite ==
  /\ BufferBound
  /\ WriteReturnedOk => (Len(ew.buffer) < CHUNK_SIZE /\ wres.n = wres.given)

\* C19, amended: the buffer is below CHUNK_SIZE after a write of at least one
\* byte that returned Ok.
C19_BufferInvariant ==
  /\ BufferBound
  /\ WriteReturnedOk => wres.n = wres.given
  /\ (WriteReturnedOk /\ wres.given > 0) => Len(ew.buffer) < CHUNK_SIZE

C19_Witness ==
  /\ WriteReturnedOk /\ wres.given = MaxWrite
  /\ ew.position > 0 /\ Len(ew.buffer) = CHUNK_SIZE - 1

\* ------------------------------------------------------------------------
\* What the opener delivers.
\* ------------------------------------------------------------------------
RECURSIVE SumLen(_)
SumLen(log) == IF log = <<>> THEN 0 ELSE log[1].len + SumLen(Tail(log))

\* the plaintext of the frames opened so far: frame k of the stream carries
\* the bytes the sealer sealed k-th, which follow one another in what was
\* written
OpenedPlaintext == Take(written, Min(Len(written), SumLen(rlog)))

\* the opener has nothing left to deliver and has seen the end
AtEnd == rd.eof /\ rd.offset >= Len(rd.buffer)

\* the bytes delivered, followed by those still held in the plaintext buffer,
\* are the plaintext of the opened frames; a read with room that returned 0
\* did so at the end
Delivery ==
  /\ rd.offset <= Len(rd.buffer)
  /\ SumLen(rlog) <= Len(written)
  /\ out \o Skip(rd.buffer, rd.offset) = OpenedPlaintext
  /\ (rpc = "idle" /\ rres.kind = "Ok" /\ rres.n = 0 /\ rres.want > 0) => AtEnd

\* at the end every read returns 0 at once: the source is not read, no frame
\* is opened
EndAbsorbs ==
  AtEnd =>
     /\ rd' = rd /\ rpc' = "idle" /\ out' = out /\ rlog' = rlog
     /\ (rres' # rres) => (rres'.kind = "Ok" /\ rres'.n = 0)

\* C20: the opener delivers each byte of the opened frames once and in
\* order, and after the end it only returns 0.
C20_Delivery == []Delivery /\ [][EndAbsorbs]_vars

C20_Witness ==
  /\ tam = "none" /\ rpc = "idle" /\ AtEnd
  /\ rres.kind = "Ok" /\ rres.n = 0 /\ rres.want > 0
  /\ Len(rlog) >= 3 /\ out = written /\ Len(out) = MaxTotal

====
